---- MODULE Spec2Model ----
(***************************************************************************)
(* Model of the file tools of deep-organizer (src/main.py): get_file_list, *)
(* create_folder, move_file and read_file, acting on a file system.        *)
(*                                                                         *)
(* Strings are sequences of one-character strings, so that the substring   *)
(* and separator tests of the code are computed, not assumed.  A path is a *)
(* sequence of component names below the file-system root "/"; the file    *)
(* system is a function from the paths that exist to their nodes.  POSIX   *)
(* path rules are modelled ('/' separates, '\' is an ordinary character).  *)
(* run is the agent run of main() and gui the state of OrganizerWindow     *)
(* (src/deep_organizer/gui.py); the tool specifications leave both alone.  *)
(***************************************************************************)
EXTENDS Integers, Sequences, FiniteSets, TLC

VARIABLES fs, last, run, gui

vars == <<fs, last, run, gui>>

----------------------------------------------------------------------------
(* Names used by the model, written as character sequences.                *)

EMPTY == <<>>
SPACE == <<" ">>
DOT == <<".">>
DOTDOT == <<".", ".">>
A_TXT == <<"a", ".", "t", "x", "t">>
B_TXT == <<"b", ".", "t", "x", "t">>
DOCS == <<"D", "o", "c", "s">>
R == <<"r">>
S == <<"s">>
UP_S == <<".", ".", "/", "s">>
ABS_S == <<"/", "s">>
DOCS_A == <<"D", "o", "c", "s", "/", "a", ".", "t", "x", "t">>
A_DD_B == <<"a", ".", ".", "b">>
X_BS_Y == <<"x", "\\", "y">>

ENV == <<".", "e", "n", "v">>
MAIN_PY == <<"m", "a", "i", "n", ".", "p", "y">>
GITIGNORE == <<".", "g", "i", "t", "i", "g", "n", "o", "r", "e">>
REQUIREMENTS_TXT ==
  <<"r", "e", "q", "u", "i", "r", "e", "m", "e", "n", "t", "s", ".", "t", "x", "t">>
VENV == <<"v", "e", "n", "v">>
PYCACHE == <<"_", "_", "p", "y", "c", "a", "c", "h", "e", "_", "_">>
GIT == <<".", "g", "i", "t">>

EXCLUDED_FILES == {ENV, MAIN_PY, GITIGNORE, REQUIREMENTS_TXT}

EXCLUDED_FOLDERS == {VENV, PYCACHE, GIT}

MAX_FILE_READ_SIZE == 1000

----------------------------------------------------------------------------
(* String helpers (Python str semantics).                                  *)

Whitespace == {" ", "\t", "\n", "\r"}

\* sub in s
Contains(s, sub) ==
  \E i \in 0..(Len(s) - Len(sub)) : SubSeq(s, i + 1, i + Len(sub)) = sub

\* s.strip()
Strip(s) ==
  LET keep == {i \in 1..Len(s) : s[i] \notin Whitespace}
  IN IF keep = {} THEN <<>>
     ELSE LET lo == CHOOSE i \in keep : \A j \in keep : i <= j
              hi == CHOOSE i \in keep : \A j \in keep : j <= i
          IN SubSeq(s, lo, hi)

RECURSIVE Digits(_)
\* the decimal digits of n >= 0, as str(n) gives them
Digits(n) ==
  LET d == <<"0", "1", "2", "3", "4", "5", "6", "7", "8", "9">>[(n % 10) + 1]
  IN IF n < 10 THEN <<d>> ELSE Append(Digits(n \div 10), d)

----------------------------------------------------------------------------
(* pathlib: lexical paths.  A lexical path is the sequence of its          *)
(* components below "/"; every path the tools build is absolute.           *)

FirstSlash(s) ==
  IF \E i \in 1..Len(s) : s[i] = "/"
  THEN CHOOSE i \in 1..Len(s) : s[i] = "/" /\ \A j \in 1..(i - 1) : s[j] # "/"
  ELSE Len(s) + 1

RECURSIVE Parts(_)
\* the components of a path string: split on '/', empty and "." dropped
Parts(s) ==
  IF Len(s) = 0 THEN <<>>
  ELSE LET i == FirstSlash(s)
           comp == SubSeq(s, 1, i - 1)
           rest == SubSeq(s, i + 1, Len(s))
       IN (IF comp \in {EMPTY, DOT} THEN <<>> ELSE <<comp>>) \o Parts(rest)

IsAbs(s) == Len(s) > 0 /\ s[1] = "/"

\* Path(base) / s : an absolute right operand replaces the left one
Join(base, s) == IF IsAbs(s) THEN Parts(s) ELSE base \o Parts(s)

\* PurePath.parent
Parent(p) == IF Len(p) = 0 THEN p ELSE SubSeq(p, 1, Len(p) - 1)

\* get_cur_dir(): the directory of the script
CurDir == <<R>>

----------------------------------------------------------------------------
(* The file system and the resolution of a lexical path by the OS.         *)

DirNode == [kind |-> "dir"]

FileNode(c) == [kind |-> "file", content |-> c]

Exists(f, p) == p \in DOMAIN f

IsDirAt(f, p) == p \in DOMAIN f /\ f[p].kind = "dir"

IsFileAt(f, p) == p \in DOMAIN f /\ f[p].kind = "file"

RECURSIVE Walk(_, _, _)
\* walk the components from cur: each step needs cur to be a directory
Walk(f, cur, parts) ==
  IF Len(parts) = 0 THEN [ok |-> TRUE, path |-> cur]
  ELSE IF ~IsDirAt(f, cur) THEN [ok |-> FALSE, path |-> cur]
  ELSE LET c == Head(parts)
       IN Walk(f, IF c = DOTDOT THEN Parent(cur) ELSE Append(cur, c), Tail(parts))

Resolve(f, parts) == Walk(f, <<>>, parts)

\* Path.exists(), Path.is_file()
PathExists(f, parts) ==
  LET r == Resolve(f, parts) IN r.ok /\ Exists(f, r.path)

PathIsFile(f, parts) ==
  LET r == Resolve(f, parts) IN r.ok /\ IsFileAt(f, r.path)

----------------------------------------------------------------------------
(* File-system primitives used by the tools.                               *)

AddNode(f, p, node) ==
  [q \in DOMAIN f \cup {p} |-> IF q = p THEN node ELSE f[q]]

\* os.mkdir(path): one directory, the parent must be a directory
OsMkdir(f, parts) ==
  LET r == Resolve(f, parts)
  IN IF r.ok /\ ~Exists(f, r.path)
     THEN [ok |-> TRUE, fs |-> AddNode(f, r.path, DirNode), path |-> r.path]
     ELSE [ok |-> FALSE, fs |-> f, path |-> r.path]

\* a mkdir without exist_ok, which fails on an existing directory
Mkdir_NoExistOk(f, parts) ==
  IF PathExists(f, parts)
  THEN [ok |-> FALSE, fs |-> f, path |-> Resolve(f, parts).path]
  ELSE OsMkdir(f, parts)

RECURSIVE Mkdir(_, _)
\* Path.mkdir(parents=True, exist_ok=True)
Mkdir(f, parts) ==
  LET r == Resolve(f, parts)
  IN IF r.ok
     THEN IF Exists(f, r.path)
          THEN [ok |-> IsDirAt(f, r.path), fs |-> f, path |-> r.path]
          ELSE OsMkdir(f, parts)
     ELSE IF Exists(f, r.path) \/ Len(parts) = 0
          THEN [ok |-> FALSE, fs |-> f, path |-> r.path]
          ELSE LET m == Mkdir(f, Parent(parts))
               IN IF m.ok THEN OsMkdir(m.fs, parts)
                  ELSE [ok |-> FALSE, fs |-> f, path |-> r.path]

\* os.rename(s, d) of a regular file s onto d, which is absent or a file
Rename(f, s, d) ==
  IF s = d THEN f
  ELSE [q \in (DOMAIN f \ {s}) \cup {d} |-> IF q = d THEN f[s] ELSE f[q]]

\* a move that removes the source before it fails
ShutilMove_Partial(f, src, dst) ==
  LET s == Resolve(f, src).path
      d == Resolve(f, dst)
  IN IF d.ok /\ IsDirAt(f, d.path)
     THEN LET real == Append(d.path, src[Len(src)])
          IN IF Exists(f, real)
             THEN [ok |-> FALSE, fs |-> f, from |-> s, to |-> real]
             ELSE [ok |-> TRUE, fs |-> Rename(f, s, real), from |-> s, to |-> real]
     ELSE IF d.ok
          THEN [ok |-> TRUE, fs |-> Rename(f, s, d.path), from |-> s, to |-> d.path]
          ELSE [ok |-> FALSE, fs |-> [q \in DOMAIN f \ {s} |-> f[q]],
                from |-> s, to |-> d.path]

\* shutil.move(src, dst) for a regular file src
ShutilMove(f, src, dst) ==
  LET s == Resolve(f, src).path
      d == Resolve(f, dst)
  IN IF d.ok /\ IsDirAt(f, d.path)
     THEN LET real == Append(d.path, src[Len(src)])
          IN IF Exists(f, real)
             THEN [ok |-> FALSE, fs |-> f, from |-> s, to |-> real]
             ELSE [ok |-> TRUE, fs |-> Rename(f, s, real), from |-> s, to |-> real]
     ELSE IF d.ok
          THEN [ok |-> TRUE, fs |-> Rename(f, s, d.path), from |-> s, to |-> d.path]
          ELSE [ok |-> FALSE, fs |-> f, from |-> s, to |-> d.path]

\* file.read(n) on a text file
ReadChars(data, n) == SubSeq(data, 1, IF Len(data) < n THEN Len(data) ELSE n)

TruncationMarker ==
  <<"\n", ".", ".", ".", " ", "(", "t", "r", "u", "n", "c", "a", "t", "e", "d",
    " ", "a", "t", " ">> \o Digits(MAX_FILE_READ_SIZE)
  \o <<" ", "c", "h", "a", "r", "a", "c", "t", "e", "r", "s", ")">>

----------------------------------------------------------------------------
(* The tools.  Each returns the file system it leaves, the string it       *)
(* returns (a template and the values formatted into it) and the set of    *)
(* paths it opened, created or renamed.                                    *)

Message(ok, tmpl, a, b, path, out) ==
  [ok |-> ok, tmpl |-> tmpl, a |-> a, b |-> b, path |-> path, out |-> out]

Outcome(f, res, touched) == [fs |-> f, res |-> res, touched |-> touched]

\* a filter that forgets the excluded folders
filtered_FilesOnly(all_items) == {item \in all_items : item \notin EXCLUDED_FILES}

\* the filter of get_file_list
filtered(all_items) ==
  {item \in all_items : item \notin EXCLUDED_FILES /\ item \notin EXCLUDED_FOLDERS}

get_file_list(f) ==
  IF ~IsDirAt(f, CurDir)
  THEN Outcome(f, Message(FALSE, "Error listing files", EMPTY, EMPTY, <<>>, {}), {})
  ELSE LET all_items == {p[Len(p)] : p \in {q \in DOMAIN f :
                              Len(q) = Len(CurDir) + 1 /\ Parent(q) = CurDir}}
           filtered_items == filtered(all_items)
       IN Outcome(f, Message(TRUE, "list", EMPTY, EMPTY, <<>>, filtered_items), {CurDir})

\* not folder_name or folder_name.strip() == ""
NameIsEmpty(folder_name) == Len(folder_name) = 0 \/ Len(Strip(folder_name)) = 0

\* a test that forgets the backslash
NameHasTraversal_NoBackslash(folder_name) ==
  Contains(folder_name, DOTDOT) \/ Contains(folder_name, <<"/">>)

\* ".." in folder_name or "/" in folder_name or "\\" in folder_name
NameHasTraversal(folder_name) ==
  \/ Contains(folder_name, DOTDOT)
  \/ Contains(folder_name, <<"/">>)
  \/ Contains(folder_name, <<"\\">>)

create_folder(f, folder_name) ==
  IF NameIsEmpty(folder_name)
  THEN Outcome(f, Message(FALSE, "Folder name cannot be empty", EMPTY, EMPTY, <<>>, <<>>), {})
  ELSE IF NameHasTraversal(folder_name)
  THEN Outcome(f, Message(FALSE, "Invalid folder name", EMPTY, EMPTY, <<>>, <<>>), {})
  ELSE LET path == Join(CurDir, folder_name)
           m == Mkdir(f, path)
       IN IF m.ok
          THEN Outcome(m.fs, Message(TRUE, "Folder created successfully",
                                     folder_name, EMPTY, path, <<>>), {m.path})
          ELSE Outcome(f, Message(FALSE, "Error creating folder",
                                  folder_name, EMPTY, <<>>, <<>>), {})

move_file(f, file_name, dest_folder) ==
  IF file_name \in EXCLUDED_FILES
  THEN Outcome(f, Message(FALSE, "Cannot move protected file", file_name, EMPTY, <<>>, <<>>), {})
  ELSE LET src_path == Join(CurDir, file_name)
           dest_path == Join(Join(CurDir, dest_folder), file_name)
       IN IF ~PathExists(f, src_path)
          THEN Outcome(f, Message(FALSE, "Source file does not exist",
                                  file_name, EMPTY, <<>>, <<>>), {})
          ELSE IF ~PathIsFile(f, src_path)
          THEN Outcome(f, Message(FALSE, "is not a file", file_name, EMPTY, <<>>, <<>>), {})
          ELSE IF ~PathExists(f, Parent(dest_path))
          THEN Outcome(f, Message(FALSE, "Destination folder does not exist",
                                  EMPTY, dest_folder, <<>>, <<>>), {})
          ELSE LET m == ShutilMove(f, src_path, dest_path)
               IN IF m.ok
                  THEN Outcome(m.fs, Message(TRUE, "moved successfully",
                                             file_name, dest_folder, <<>>, <<>>),
                               {m.from, m.to})
                  ELSE Outcome(m.fs, Message(FALSE, "Error moving file",
                                             file_name, EMPTY, <<>>, <<>>), {})

\* a read that truncates silently
read_text_Silent(data) == ReadChars(data, MAX_FILE_READ_SIZE)

\* content = file.read(MAX_FILE_READ_SIZE), marked when it fills the limit
read_text(data) ==
  LET content == ReadChars(data, MAX_FILE_READ_SIZE)
  IN IF Len(content) = MAX_FILE_READ_SIZE
     THEN content \o TruncationMarker
     ELSE content

read_file(f, file_name) ==
  IF file_name \in EXCLUDED_FILES
  THEN Outcome(f, Message(FALSE, "Cannot read protected file", file_name, EMPTY, <<>>, <<>>), {})
  ELSE LET path == Join(CurDir, file_name)
       IN IF ~PathExists(f, path)
          THEN Outcome(f, Message(FALSE, "File does not exist", file_name, EMPTY, <<>>, <<>>), {})
          ELSE IF ~PathIsFile(f, path)
          THEN Outcome(f, Message(FALSE, "is not a file", file_name, EMPTY, <<>>, <<>>), {})
          ELSE LET p == Resolve(f, path).path
                   c == f[p].content
               IN IF ~c.text
                  THEN Outcome(f, Message(FALSE, "appears to be a binary file",
                                          file_name, EMPTY, <<>>, <<>>), {p})
                  ELSE Outcome(f, Message(TRUE, "content", file_name, EMPTY, <<>>,
                                          read_text(c.data)), {p})

----------------------------------------------------------------------------
(* The state machine: the agent calls the tools, one at a time, with       *)
(* arguments of its choosing.  last records the latest call: the tool, its *)
(* arguments, the returned string, the file system before the call and the *)
(* paths the call opened, created or renamed.                              *)

Text(n) == [text |-> TRUE, data |-> [i \in 1..n |-> IF i % 3 = 0 THEN "x" ELSE "y"]]

Binary == [text |-> FALSE, data |-> <<"\\", "x", "f", "f">>]

Secret == [text |-> TRUE, data |-> <<"k", "e", "y">>]

Other == [text |-> TRUE, data |-> <<"o", "l", "d">>]

\* contents of a.txt: empty, short, around the read limit, and not text
Contents ==
  {Text(0), Text(2), Text(MAX_FILE_READ_SIZE - 1), Text(MAX_FILE_READ_SIZE),
   Text(MAX_FILE_READ_SIZE + 1), Text(MAX_FILE_READ_SIZE + 7), Binary}

Base(c) ==
  (<<>> :> DirNode) @@ (<<S>> :> FileNode(Secret)) @@ (<<R>> :> DirNode)
  @@ (<<R, ENV>> :> FileNode(Secret)) @@ (<<R, A_TXT>> :> FileNode(c))

\* Docs: absent, a directory (empty, or holding a file or a directory
\* named a.txt), or a regular file
DocsVariants ==
  { <<>> :> DirNode,
    <<R, DOCS>> :> DirNode,
    (<<R, DOCS>> :> DirNode) @@ (<<R, DOCS, A_TXT>> :> FileNode(Other)),
    (<<R, DOCS>> :> DirNode) @@ (<<R, DOCS, A_TXT>> :> DirNode),
    <<R, DOCS>> :> FileNode(Other) }

\* .git: a directory, or a regular file as in a linked worktree
GitVariants == { <<R, GIT>> :> DirNode, <<R, GIT>> :> FileNode(Other) }

InitialFs == {Base(Text(2)) @@ d @@ g : d \in DocsVariants, g \in GitVariants}

\* file systems whose a.txt is around the read limit
InitialFsRead == {Base(c) @@ d @@ g : c \in Contents, d \in DocsVariants, g \in GitVariants}

MoveArgs == {A_TXT, ENV, GIT, B_TXT}

DestArgs == {DOCS, GIT, DOTDOT, DOT, DOCS_A, B_TXT}

ReadArgs == {A_TXT, ENV, GIT, DOCS, DOCS_A, UP_S, ABS_S, EMPTY, B_TXT}

FolderArgs == {DOCS, VENV, DOT, EMPTY, SPACE, DOTDOT, DOCS_A, X_BS_Y, A_DD_B}

Call(op, name, dest, r) ==
  [op |-> op, name |-> name, dest |-> dest, res |-> r.res, pre |-> fs,
   touched |-> r.touched, raised |-> FALSE]

NoCall ==
  [op |-> "none", name |-> EMPTY, dest |-> EMPTY,
   res |-> Message(TRUE, "none", EMPTY, EMPTY, <<>>, <<>>), pre |-> fs, touched |-> {},
   raised |-> FALSE]

\* main() before agent.invoke
NoRun ==
  [pc |-> "idle", steps |-> 0, limit |-> FALSE, cancel |-> FALSE, late |-> FALSE,
   error |-> "none"]

\* no window is open
NoWindow == [open |-> FALSE]

Init == fs \in InitialFs /\ last = NoCall /\ run = NoRun /\ gui = NoWindow

List ==
  /\ LET r == get_file_list(fs)
     IN fs' = r.fs /\ last' = Call("list", EMPTY, EMPTY, r)
  /\ UNCHANGED <<run, gui>>

CreateFolder ==
  /\ \E folder_name \in FolderArgs :
       LET r == create_folder(fs, folder_name)
       IN fs' = r.fs /\ last' = Call("create", folder_name, EMPTY, r)
  /\ UNCHANGED <<run, gui>>

MoveFile ==
  /\ \E file_name \in MoveArgs, dest_folder \in DestArgs :
       LET r == move_file(fs, file_name, dest_folder)
       IN fs' = r.fs /\ last' = Call("move", file_name, dest_folder, r)
  /\ UNCHANGED <<run, gui>>

ReadFile ==
  /\ \E file_name \in ReadArgs :
       LET r == read_file(fs, file_name)
       IN fs' = r.fs /\ last' = Call("read", file_name, EMPTY, r)
  /\ UNCHANGED <<run, gui>>

Next == List \/ CreateFolder \/ MoveFile \/ ReadFile

Spec == Init /\ [][Next]_vars

----------------------------------------------------------------------------
(* A single create_folder call with any name of up to MaxNameLen           *)
(* characters over an alphabet holding a letter, a blank, the dot and both *)
(* separators.                                                             *)

MaxNameLen == 3

Alphabet == {"a", " ", ".", "/", "\\"}

NamesUpTo(n) == UNION {[1..k -> Alphabet] : k \in 0..n}

CreateAnyName ==
  /\ last.op = "none"
  /\ \E folder_name \in NamesUpTo(MaxNameLen) :
       LET r == create_folder(fs, folder_name)
       IN fs' = r.fs /\ last' = Call("create", folder_name, EMPTY, r)
  /\ UNCHANGED <<run, gui>>

NextNames == CreateAnyName

SpecNames == Init /\ [][NextNames]_vars

----------------------------------------------------------------------------
(* Reading: file systems whose a.txt is around the read limit.             *)

InitRead == fs \in InitialFsRead /\ last = NoCall /\ run = NoRun /\ gui = NoWindow

NextRead == ReadFile

SpecRead == InitRead /\ [][NextRead]_vars

----------------------------------------------------------------------------
(* Dry-run mode.  The dry-run tools live in deep_organizer/core.py         *)
(* (FileOrganizer), which is not among the sources; they follow the        *)
(* specification: create-folder validates the name and creates nothing,    *)
(* move-file checks the source and moves nothing, and both report the      *)
(* action as simulated.  The destination is not required to exist, since a *)
(* folder "created" in the same dry run does not.                          *)

dry_create_folder(f, folder_name) ==
  IF NameIsEmpty(folder_name)
  THEN Outcome(f, Message(FALSE, "Folder name cannot be empty", EMPTY, EMPTY, <<>>, <<>>), {})
  ELSE IF NameHasTraversal(folder_name)
  THEN Outcome(f, Message(FALSE, "Invalid folder name", EMPTY, EMPTY, <<>>, <<>>), {})
  ELSE Outcome(f, Message(TRUE, "simulated create", folder_name, EMPTY, <<>>, <<>>), {})

\* a dry run that moves all the same
dry_move_file_Moves(f, file_name, dest_folder) == move_file(f, file_name, dest_folder)

dry_move_file(f, file_name, dest_folder) ==
  IF file_name \in EXCLUDED_FILES
  THEN Outcome(f, Message(FALSE, "Cannot move protected file", file_name, EMPTY, <<>>, <<>>), {})
  ELSE IF ~PathExists(f, Join(CurDir, file_name))
  THEN Outcome(f, Message(FALSE, "Source file does not exist", file_name, EMPTY, <<>>, <<>>), {})
  ELSE IF ~PathIsFile(f, Join(CurDir, file_name))
  THEN Outcome(f, Message(FALSE, "is not a file", file_name, EMPTY, <<>>, <<>>), {})
  ELSE Outcome(f, Message(TRUE, "simulated move", file_name, dest_folder, <<>>, <<>>), {})

DryCreateFolder ==
  /\ \E folder_name \in FolderArgs :
       LET r == dry_create_folder(fs, folder_name)
       IN fs' = r.fs /\ last' = Call("create", folder_name, EMPTY, r)
  /\ UNCHANGED <<run, gui>>

DryMoveFile ==
  /\ \E file_name \in MoveArgs, dest_folder \in DestArgs :
       LET r == dry_move_file(fs, file_name, dest_folder)
       IN fs' = r.fs /\ last' = Call("move", file_name, dest_folder, r)
  /\ UNCHANGED <<run, gui>>

NextDry == List \/ DryCreateFolder \/ DryMoveFile \/ ReadFile

SpecDry == Init /\ [][NextDry]_vars

----------------------------------------------------------------------------
(* The error kinds of the specification, read off the returned strings.    *)

Kind(res) ==
  IF res.ok THEN "Ok"
  ELSE CASE res.tmpl \in {"Folder name cannot be empty", "Invalid folder name"}
              -> "InvalidName"
         [] res.tmpl \in {"Cannot move protected file", "Cannot read protected file"}
              -> "Protected"
         [] res.tmpl \in {"Source file does not exist", "File does not exist"}
              -> "NotFound"
         [] res.tmpl = "is not a file" -> "NotAFile"
         [] res.tmpl = "Destination folder does not exist" -> "DestMissing"
         [] res.tmpl = "appears to be a binary file" -> "NotText"
         [] OTHER -> "IOFailure"

ExclusionSet == EXCLUDED_FILES \cup EXCLUDED_FOLDERS

\* p is the root directory or lies below it
InsideRoot(p) == Len(p) >= Len(CurDir) /\ SubSeq(p, 1, Len(CurDir)) = CurDir

\* the names of the direct children of the root directory
Children(f) == {p[Len(p)] : p \in {q \in DOMAIN f : Len(q) = 2 /\ q[1] = R}}

\* the path a tool argument stands for: root / name
Under(f, name) == Resolve(f, Join(CurDir, name)).path

----------------------------------------------------------------------------
(* Claims.                                                                 *)

\* C1: no call reads, creates, moves or writes a path outside the root
\* directory: every path a tool touches is the root or a descendant of it.
\* (Stated as claimed; read_file and move_file do not validate their
\* arguments, so "../s", "/s" and the destination ".." leave the root.)
C1_StaysInRoot == \A p \in last.touched : InsideRoot(p)

\* C2: for every name of the ExclusionSet, readFile and moveFile return the
\* Protected error and leave the file system unchanged.  (Stated as claimed;
\* the code tests EXCLUDED_FILES only.)
C2_ExcludedProtected ==
  (last.op \in {"read", "move"} /\ last.name \in ExclusionSet)
    => (Kind(last.res) = "Protected" /\ fs = last.pre)

\* C3: createFolder with an excluded name and moveFile with an excluded
\* destination folder are rejected with an error and change nothing.
\* (Stated as claimed; the code checks neither.)
C3_ExcludedNeverTargeted ==
  /\ (last.op = "create" /\ last.name \in ExclusionSet)
       => (~last.res.ok /\ fs = last.pre)
  /\ (last.op = "move" /\ last.dest \in ExclusionSet)
       => (~last.res.ok /\ fs = last.pre)

\* a name that is empty or all whitespace, or holds "..", "/" or "\"
BadName(n) ==
  \/ \A i \in 1..Len(n) : n[i] \in Whitespace
  \/ \E i \in 1..Len(n) : n[i] \in {"/", "\\"}
  \/ \E i \in 1..(Len(n) - 1) : n[i] = "." /\ n[i + 1] = "."

\* C4: for every name that is empty, whitespace-only or contains "..", "/"
\* or "\", createFolder returns the InvalidName error and creates no
\* directory.
C4_BadNameRejected ==
  (last.op = "create" /\ BadName(last.name))
    => (Kind(last.res) = "InvalidName" /\ fs = last.pre)

C4_Witness ==
  /\ last.op = "create"
  /\ last.name = <<"a", "\\", ".">>
  /\ Kind(last.res) = "InvalidName"

\* C5: list() returns exactly the names of the direct children of the root
\* that are in neither excludedFiles nor excludedFolders.
C5_ListExact ==
  last.op = "list"
    => /\ last.res.ok
       /\ \A n \in last.res.out : n \in Children(fs) /\ n \notin ExclusionSet
       /\ \A n \in Children(fs) : n \in ExclusionSet \/ n \in last.res.out

C5_Witness ==
  /\ last.op = "list"
  /\ VENV \in Children(fs) /\ ENV \in Children(fs)
  /\ DOCS \in last.res.out /\ VENV \notin last.res.out

DirectChildDir(f, d) ==
  /\ ~Contains(d, <<"/">>)
  /\ d \notin {EMPTY, DOT, DOTDOT}
  /\ IsDirAt(f, <<R, d>>)

\* C7: moveFile of a movable file returns the DestMissing error and moves
\* nothing whenever destFolder is not an existing directory that is a direct
\* child of the root.  (Stated as claimed; the code only tests that the
\* parent of root/destFolder/name exists.)
C7_DestMissing ==
  (/\ last.op = "move"
   /\ last.name \notin ExclusionSet
   /\ PathIsFile(last.pre, Join(CurDir, last.name))
   /\ ~DirectChildDir(last.pre, last.dest))
    => (Kind(last.res) = "DestMissing" /\ fs = last.pre)

\* C8: when moveFile reports success the file is gone from root/name, is at
\* root/destFolder/name with the content it had, and the message names the
\* source and the destination.  (Stated as claimed.)
C8_MoveSuccess ==
  (last.op = "move" /\ last.res.ok)
    => LET src == Under(last.pre, last.name)
           dst == Resolve(last.pre, Join(Join(CurDir, last.dest), last.name)).path
       IN /\ ~Exists(fs, src)
          /\ IsFileAt(fs, dst)
          /\ fs[dst].content = last.pre[src].content
          /\ last.res.a = last.name /\ last.res.b = last.dest

\* a second create_folder call with the same name changes nothing and
\* succeeds
SecondCreateSame ==
  LET again == create_folder(fs, last.name)
  IN again.res.ok /\ again.fs = fs

\* C9 as claimed: for any valid name X, createFolder(X) twice in a row
\* succeeds both times and leaves exactly one directory X under the root.
C9_AnyValidName ==
  (last.op = "create" /\ ~BadName(last.name))
    => (last.res.ok /\ IsDirAt(fs, <<R, last.name>>) /\ SecondCreateSame)

\* C9, amended: the same for any valid name X other than "." that does not
\* name a regular file in the root.
C9_Idempotent ==
  (/\ last.op = "create" /\ ~BadName(last.name)
   /\ last.name # DOT
   /\ ~IsFileAt(last.pre, <<R, last.name>>))
    => (last.res.ok /\ IsDirAt(fs, <<R, last.name>>) /\ SecondCreateSame)

\* the second of two calls in a row
C9_Witness ==
  /\ last.op = "create" /\ last.name = VENV /\ last.res.ok
  /\ IsDirAt(last.pre, <<R, VENV>>) /\ fs = last.pre

\* C10: readFile on a text file longer than the limit returns exactly the
\* first MAX_FILE_READ_SIZE characters followed by the truncation marker,
\* which names the limit.
C10_Truncated ==
  (/\ last.op = "read"
   /\ last.name \notin ExclusionSet
   /\ PathIsFile(last.pre, Join(CurDir, last.name))
   /\ last.pre[Under(last.pre, last.name)].content.text
   /\ Len(last.pre[Under(last.pre, last.name)].content.data) > MAX_FILE_READ_SIZE)
    => LET data == last.pre[Under(last.pre, last.name)].content.data
           out == last.res.out
       IN /\ last.res.ok
          /\ Len(out) > MAX_FILE_READ_SIZE
          /\ SubSeq(out, 1, MAX_FILE_READ_SIZE) = SubSeq(data, 1, MAX_FILE_READ_SIZE)
          /\ SubSeq(out, MAX_FILE_READ_SIZE + 1, Len(out)) = TruncationMarker
          /\ Contains(TruncationMarker, <<"1", "0", "0", "0">>)

C10_Witness ==
  /\ last.op = "read" /\ last.name = A_TXT /\ last.res.ok
  /\ Len(fs[<<R, A_TXT>>].content.data) = MAX_FILE_READ_SIZE + 7
  /\ Len(last.res.out) = MAX_FILE_READ_SIZE + Len(TruncationMarker)

----------------------------------------------------------------------------
(* File-system faults.  An OS call of a tool may fail: the directory       *)
(* enumeration, a stat (exists, is_file), mkdir, the move, or opening the  *)
(* file.  The failing call changes nothing and raises; every tool body     *)
(* runs inside try ... except Exception, which turns the exception into    *)
(* the tool's error string.  The root directory may also be missing.       *)

NoFault == [at |-> "none", exc |-> "none"]

\* no fault, or an OSError raised by one of the OS calls named
FaultsAt(calls) == {NoFault} \cup {[at |-> a, exc |-> "OSError"] : a \in calls}

\* the classes caught by "except Exception"
ExceptionClasses ==
  {"OSError", "PermissionError", "FileNotFoundError", "UnicodeDecodeError", "ValueError"}

Returned(o) == [raised |-> FALSE, exc |-> "none", out |-> o]

Raise(f, exc) ==
  [raised |-> TRUE, exc |-> exc,
   out |-> Outcome(f, Message(FALSE, "raised", EMPTY, EMPTY, <<>>, <<>>), {})]

\* a handler that catches nothing
ExceptNothing(c, f, tmpl, a) == c

\* except Exception as e: return f"Error ...: {str(e)}"
ExceptException(c, f, tmpl, a) ==
  IF c.raised /\ c.exc \in ExceptionClasses
  THEN Returned(Outcome(f, Message(FALSE, tmpl, a, EMPTY, <<>>, <<>>), {}))
  ELSE c

get_file_list_try(f, fault) ==
  ExceptException(IF fault.at = "iterdir" THEN Raise(f, fault.exc)
                  ELSE Returned(get_file_list(f)),
                  f, "Error listing files", EMPTY)

create_folder_try(f, folder_name, fault) ==
  ExceptException(IF /\ fault.at = "mkdir"
                     /\ ~NameIsEmpty(folder_name) /\ ~NameHasTraversal(folder_name)
                  THEN Raise(f, fault.exc)
                  ELSE Returned(create_folder(f, folder_name)),
                  f, "Error creating folder", folder_name)

move_file_try(f, file_name, dest_folder, fault) ==
  LET o == move_file(f, file_name, dest_folder)
  IN ExceptException(IF \/ fault.at = "stat" /\ file_name \notin EXCLUDED_FILES
                        \/ fault.at = "move"
                             /\ o.res.tmpl \in {"moved successfully", "Error moving file"}
                     THEN Raise(f, fault.exc)
                     ELSE Returned(o),
                     f, "Error moving file", file_name)

read_file_try(f, file_name, fault) ==
  LET o == read_file(f, file_name)
  IN ExceptException(IF \/ fault.at = "stat" /\ file_name \notin EXCLUDED_FILES
                        \/ fault.at = "open"
                             /\ o.res.tmpl \in {"content", "appears to be a binary file"}
                     THEN Raise(f, fault.exc)
                     ELSE Returned(o),
                     f, "Error reading file", file_name)

\* the root directory is missing
NoRootFs == (<<>> :> DirNode) @@ (<<S>> :> FileNode(Secret))

InitFault ==
  fs \in InitialFs \cup {NoRootFs} /\ last = NoCall /\ run = NoRun /\ gui = NoWindow

CallF(op, name, dest, c) == [Call(op, name, dest, c.out) EXCEPT !.raised = c.raised]

ListF ==
  /\ \E fault \in FaultsAt({"iterdir"}) :
       LET c == get_file_list_try(fs, fault)
       IN fs' = c.out.fs /\ last' = CallF("list", EMPTY, EMPTY, c)
  /\ UNCHANGED <<run, gui>>

CreateFolderF ==
  /\ \E folder_name \in FolderArgs, fault \in FaultsAt({"mkdir"}) :
       LET c == create_folder_try(fs, folder_name, fault)
       IN fs' = c.out.fs /\ last' = CallF("create", folder_name, EMPTY, c)
  /\ UNCHANGED <<run, gui>>

MoveFileF ==
  /\ \E file_name \in MoveArgs, dest_folder \in DestArgs, fault \in FaultsAt({"stat", "move"}) :
       LET c == move_file_try(fs, file_name, dest_folder, fault)
       IN fs' = c.out.fs /\ last' = CallF("move", file_name, dest_folder, c)
  /\ UNCHANGED <<run, gui>>

ReadFileF ==
  /\ \E file_name \in ReadArgs, fault \in FaultsAt({"stat", "open"}) :
       LET c == read_file_try(fs, file_name, fault)
       IN fs' = c.out.fs /\ last' = CallF("read", file_name, EMPTY, c)
  /\ UNCHANGED <<run, gui>>

NextFault == ListF \/ CreateFolderF \/ MoveFileF \/ ReadFileF

SpecFault == InitFault /\ [][NextFault]_vars

\* C11: no tool raises past its boundary: for every input, every file
\* system (the root may be missing) and every fault of an OS call, the call
\* returns a string, and a fault is returned as an error string.
C11_NeverRaises ==
  /\ ~last.raised
  /\ last.op # "none" => last.res.tmpl # "raised"

\* a fault in the middle of read_file, and a listing of a missing root
C11_Witness ==
  \/ last.op = "read" /\ last.name = A_TXT /\ last.res.tmpl = "Error reading file"
  \/ last.op = "list" /\ ~Exists(fs, CurDir) /\ last.res.tmpl = "Error listing files"

----------------------------------------------------------------------------
(* The agent run of main(): agent.invoke drives the tools under a          *)
(* recursion limit and main() prints completion when invoke returns and    *)
(* the error when it raises an Exception.  The agent is the prebuilt ReAct *)
(* graph of the agent library: a round is a model step that asks for a     *)
(* tool call followed by the tools step, and a last model step gives the   *)
(* answer.  steps counts the graph steps taken; late records a tool call   *)
(* issued after a cancellation signal arrived.                             *)

RECURSION_LIMIT == 1000

RunFs == Base(Text(2)) @@ (<<R, GIT>> :> DirNode)

InitRun == fs = RunFs /\ last = NoCall /\ run = NoRun /\ gui = NoWindow

\* agent.invoke(...) is entered
Invoke ==
  /\ run.pc = "idle"
  /\ run' = [run EXCEPT !.pc = "running"]
  /\ UNCHANGED <<fs, last, gui>>

\* a round fits when a model step is left after it
RoundFits == run.pc = "running" /\ run.steps + 3 <= RECURSION_LIMIT

AfterRound == [run EXCEPT !.steps = @ + 2, !.late = @ \/ run.cancel]

RunList ==
  /\ RoundFits
  /\ LET r == get_file_list(fs)
     IN fs' = r.fs /\ last' = Call("list", EMPTY, EMPTY, r)
  /\ run' = AfterRound
  /\ UNCHANGED gui

RunCreateFolder ==
  /\ RoundFits
  /\ LET r == create_folder(fs, DOCS)
     IN fs' = r.fs /\ last' = Call("create", DOCS, EMPTY, r)
  /\ run' = AfterRound
  /\ UNCHANGED gui

RunMoveFile ==
  /\ RoundFits
  /\ LET r == move_file(fs, A_TXT, DOCS)
     IN fs' = r.fs /\ last' = Call("move", A_TXT, DOCS, r)
  /\ run' = AfterRound
  /\ UNCHANGED gui

RunReadFile ==
  /\ RoundFits
  /\ LET r == read_file(fs, A_TXT)
     IN fs' = r.fs /\ last' = Call("read", A_TXT, EMPTY, r)
  /\ run' = AfterRound
  /\ UNCHANGED gui

\* the model answers without a tool call: invoke returns, main() prints
\* "File Organization Complete!"
Finish ==
  /\ run.pc = "running" /\ run.steps + 1 <= RECURSION_LIMIT
  /\ run' = [run EXCEPT !.pc = "completed", !.steps = @ + 1]
  /\ UNCHANGED <<fs, last, gui>>

\* the model asks for a tool call that no longer fits.  What invoke does
\* then is the library's choice: the graph raises GraphRecursionError, or
\* the prebuilt agent answers that it needs more steps and invoke returns.
OutOfSteps ==
  /\ run.pc = "running" /\ ~RoundFits
  /\ \E raises \in BOOLEAN :
       run' = [run EXCEPT !.limit = TRUE,
                          !.pc = IF raises THEN "failed" ELSE "completed",
                          !.error = IF raises THEN "GraphRecursionError" ELSE "none"]
  /\ UNCHANGED <<fs, last, gui>>

\* the model call fails: except Exception prints "Error running agent"
AgentError ==
  /\ run.pc = "running"
  /\ run' = [run EXCEPT !.pc = "failed", !.error = "Exception"]
  /\ UNCHANGED <<fs, last, gui>>

\* a cancellation signal arrives; nothing in the run reads it
Cancel ==
  /\ run.pc = "running" /\ ~run.cancel
  /\ run' = [run EXCEPT !.cancel = TRUE]
  /\ UNCHANGED <<fs, last, gui>>

\* in main() the signal is KeyboardInterrupt, which is not an Exception:
\* it leaves main() uncaught
Interrupt ==
  /\ run.pc = "running" /\ run.cancel
  /\ run' = [run EXCEPT !.pc = "aborted", !.error = "KeyboardInterrupt"]
  /\ UNCHANGED <<fs, last, gui>>

NextRun ==
  \/ Invoke \/ RunList \/ RunCreateFolder \/ RunMoveFile \/ RunReadFile
  \/ Finish \/ OutOfSteps \/ AgentError \/ Cancel \/ Interrupt

SpecRun == InitRun /\ [][NextRun]_vars

\* C13: a run that reaches the iteration ceiling ends in the Failed state
\* with the iteration-limit error, and never goes past the ceiling or
\* reports completion.  (Stated as claimed.)
C13_LimitFails ==
  /\ run.steps <= RECURSION_LIMIT
  /\ run.limit => (run.pc = "failed" /\ run.error = "GraphRecursionError")

\* C14: after a cancellation signal no further tool call is issued and the
\* run ends in the Failed state with a Cancelled error.  (Stated as
\* claimed.)
C14_CancelStops ==
  run.cancel =>
    /\ ~run.late
    /\ run.pc \in {"completed", "failed", "aborted"}
         => (run.pc = "failed" /\ run.error = "Cancelled")

----------------------------------------------------------------------------
(* OrganizerWindow (src/deep_organizer/gui.py).  A run is a QThread with   *)
(* its OrganizerWorker, numbered in the order of the starts.  status is    *)
(* the life of each: "running" while OrganizerWorker.run executes,         *)
(* "emitted" once it has emitted finished or failed, "quitting" once the   *)
(* thread was told to quit, "finished" once the thread has ended.  The     *)
(* slots of the window and QThread.quit run in the main thread, so the     *)
(* signals of a worker thread are queued: queue is the event queue of the  *)
(* main thread.  A message box runs a nested event loop: queued events are *)
(* still delivered while it is open, clicks on the window are not.         *)

MaxRuns == 3

Runs == 1..MaxRuns

KeyValues == {EMPTY, SPACE, <<"k">>}

\* contents of the directory field: blank, the root, a file, a missing path
DirectoryValues == {EMPTY, SPACE, <<"/", "r">>, <<"/", "s">>, <<"/", "x">>}

Window(field, env, stored) ==
  [button |-> TRUE, dialog |-> FALSE, thread |-> 0, worker |-> 0,
   status |-> [i \in Runs |-> "unborn"], deleted |-> {}, queue |-> <<>>,
   started |-> 0, outcome |-> "none", directory |-> EMPTY,
   field |-> field, env |-> env, stored |-> stored]

InitGui ==
  /\ fs = RunFs /\ last = NoCall /\ run = NoRun
  /\ gui \in {Window(f, e, st) : f \in KeyValues, e \in KeyValues, st \in KeyValues}

\* a key lookup that forgets to strip the key field
get_api_key_NoStrip(field, env, stored) ==
  IF Len(field) > 0 THEN field
  ELSE IF Len(Strip(env)) > 0 THEN Strip(env)
  ELSE Strip(stored)

\* _get_api_key: the key field, then the environment, then the settings
get_api_key(field, env, stored) ==
  IF Len(Strip(field)) > 0 THEN Strip(field)
  ELSE IF Len(Strip(env)) > 0 THEN Strip(env)
  ELSE IF Len(Strip(stored)) > 0 THEN Strip(stored)
  ELSE EMPTY

\* a start that leaves the Start button enabled
ButtonAfterStart_Enabled == TRUE

\* self._start_button.setEnabled(False)
ButtonAfterStart == FALSE

\* _start_organizing, with text in the directory field
start_organizing(g, f, text) ==
  LET directory == Strip(text)
      api_key == get_api_key(g.field, g.env, g.stored)
      id == g.started + 1
  IN IF Len(directory) = 0
     THEN [g EXCEPT !.directory = text, !.outcome = "Choose a directory", !.dialog = TRUE]
     ELSE IF ~IsDirAt(f, Resolve(f, Parts(directory)).path)
     THEN [g EXCEPT !.directory = text, !.outcome = "Invalid directory", !.dialog = TRUE]
     ELSE IF Len(api_key) = 0
     THEN [g EXCEPT !.directory = text, !.outcome = "Missing API key", !.dialog = TRUE]
     ELSE [g EXCEPT !.directory = text, !.outcome = "started",
                    !.env = api_key,
                    !.button = ButtonAfterStart,
                    !.started = id,
                    !.thread = id, !.worker = id,
                    !.status[id] = "running"]

\* a click on the enabled Start button
StartClick ==
  /\ gui.button /\ ~gui.dialog /\ gui.started < MaxRuns
  /\ \E text \in DirectoryValues : gui' = start_organizing(gui, fs, text)
  /\ UNCHANGED <<fs, last, run>>

\* OrganizerWorker.run returns: finished or failed is emitted, and with it
\* the window's slot and the thread's quit are queued, in that order
WorkerDone ==
  /\ \E i \in Runs, ok \in BOOLEAN :
       /\ gui.status[i] = "running"
       /\ gui' = [gui EXCEPT !.status[i] = "emitted",
                             !.queue = @ \o <<[ev |-> IF ok THEN "result" ELSE "error",
                                               id |-> i],
                                              [ev |-> "quit", id |-> i]>>]
  /\ UNCHANGED <<fs, last, run>>

\* _handle_result / _handle_error: the button is enabled again and a
\* message box opens
HandleResult ==
  /\ Len(gui.queue) > 0 /\ Head(gui.queue).ev \in {"result", "error"}
  /\ gui' = [gui EXCEPT !.queue = Tail(@), !.button = TRUE, !.dialog = TRUE]
  /\ UNCHANGED <<fs, last, run>>

\* QThread.quit
ThreadQuit ==
  /\ Len(gui.queue) > 0 /\ Head(gui.queue).ev = "quit"
  /\ gui' = [gui EXCEPT !.queue = Tail(@), !.status[Head(gui.queue).id] = "quitting"]
  /\ UNCHANGED <<fs, last, run>>

\* the thread ends and emits finished, which queues _cleanup_thread
ThreadFinished ==
  /\ \E i \in Runs :
       /\ gui.status[i] = "quitting"
       /\ gui' = [gui EXCEPT !.status[i] = "finished",
                             !.queue = Append(@, [ev |-> "cleanup", id |-> i])]
  /\ UNCHANGED <<fs, last, run>>

\* _cleanup_thread
cleanup_thread(g) ==
  [g EXCEPT !.deleted = IF g.thread # 0 THEN @ \cup {g.thread} ELSE @,
            !.thread = 0, !.worker = 0]

CleanupThread ==
  /\ Len(gui.queue) > 0 /\ Head(gui.queue).ev = "cleanup"
  /\ gui' = [cleanup_thread(gui) EXCEPT !.queue = Tail(@)]
  /\ UNCHANGED <<fs, last, run>>

\* the message box is dismissed
CloseDialog ==
  /\ gui.dialog
  /\ gui' = [gui EXCEPT !.dialog = FALSE]
  /\ UNCHANGED <<fs, last, run>>

NextGui ==
  \/ StartClick \/ WorkerDone \/ HandleResult \/ ThreadQuit \/ ThreadFinished
  \/ CleanupThread \/ CloseDialog

SpecGui == InitGui /\ [][NextGui]_vars

Running(g) == {i \in Runs : g.status[i] = "running"}

Alive(g) == {i \in Runs : g.status[i] \in {"running", "emitted", "quitting"}}

NoKey(g) ==
  \A v \in {g.field, g.env, g.stored} : \A i \in 1..Len(v) : v[i] \in Whitespace

\* C15: without an API key no run is started: no thread or worker is
\* created, nothing is queued, the Start button stays enabled, and a start
\* request with a valid directory is answered with the missing-key message.
C15_NoKeyNoRun ==
  NoKey(gui) =>
    /\ gui.started = 0 /\ gui.thread = 0 /\ gui.worker = 0
    /\ \A i \in Runs : gui.status[i] = "unborn"
    /\ gui.queue = <<>> /\ gui.button
    /\ gui.outcome \in {"none", "Choose a directory", "Invalid directory", "Missing API key"}
    /\ (gui.outcome # "none" /\ gui.directory = <<"/", "r">>)
         => gui.outcome = "Missing API key"

C15_Witness ==
  /\ NoKey(gui) /\ gui.field = SPACE /\ gui.stored = SPACE
  /\ gui.outcome = "Missing API key"

\* C19: the window's thread and worker references refer to the run in
\* progress, and its thread is not scheduled for deletion.  (Stated as
\* claimed.)
C19_RefsCurrent ==
  \A i \in Runs :
    gui.status[i] = "running"
      => (gui.thread = i /\ gui.worker = i /\ i \notin gui.deleted)

----------------------------------------------------------------------------
FilesWith(f, c) ==
  {p \in DOMAIN f : InsideRoot(p) /\ IsFileAt(f, p) /\ f[p].content = c}

\* C17: no call loses a file: every regular file that was below the root
\* before the call is below the root after it, with its content.  (Stated
\* as claimed.)
C17_NoFileLost ==
  \A p \in DOMAIN last.pre :
    (InsideRoot(p) /\ IsFileAt(last.pre, p))
      => Cardinality(FilesWith(fs, last.pre[p].content))
           >= Cardinality(FilesWith(last.pre, last.pre[p].content))

\* C18: readFile on a text file of at most MAX_FILE_READ_SIZE characters
\* returns the content as it is, with no truncation marker.  (Stated as
\* claimed.)
C18_MarkerOnlyWhenCut ==
  (/\ last.op = "read"
   /\ last.name \notin ExclusionSet
   /\ PathIsFile(last.pre, Join(CurDir, last.name))
   /\ last.pre[Under(last.pre, last.name)].content.text
   /\ Len(last.pre[Under(last.pre, last.name)].content.data) <= MAX_FILE_READ_SIZE)
    => (/\ last.res.ok
        /\ last.res.out = last.pre[Under(last.pre, last.name)].content.data)

\* every entry but "/" lies in a directory
WellFormed == \A p \in DOMAIN fs : Len(p) = 0 \/ IsDirAt(fs, Parent(p))

====
